---- MODULE Spec2Model ----
(***************************************************************************)
(* Model of netlify/functions/upload.js: the Netlify handler that stores   *)
(* uploaded Yellow Camera clips in Google Drive.                           *)
(*                                                                         *)
(* JavaScript strings that the code inspects or builds character by        *)
(* character (header values, filenames, camera codes, timestamps, remote   *)
(* names, descriptions) are sequences of one-character strings.  Strings   *)
(* the code only passes around (methods, header keys, error messages) are  *)
(* TLA+ strings.  The busboy parser, the googleapis client and the Drive   *)
(* backend are the environment: what they deliver is an input of the       *)
(* action that awaits them.                                                *)
(***************************************************************************)
EXTENDS Integers, Sequences, FiniteSets, TLC

\* ------------------------------------------------------------------------
\* Bounds of the model
\* ------------------------------------------------------------------------
MaxFiles == 3      \* file parts in one multipart body
MaxClock == 2      \* milliseconds that may elapse during one request

\* ------------------------------------------------------------------------
\* JavaScript values
\* ------------------------------------------------------------------------
\* undefined: a property that is absent (not a character sequence)
Undefined == <<"<undefined>">>

\* !v for a value that is a string or undefined
Falsy(v) == v = Undefined \/ v = <<>>

\* a || b
Or(a, b) == IF Falsy(a) THEN b ELSE a

\* obj[key] for an object modelled as a function
Get(obj, key) == IF key \in DOMAIN obj THEN obj[key] ELSE Undefined

\* String.prototype.includes
Includes(s, needle) ==
  \E i \in 0..(Len(s) - Len(needle)) : SubSeq(s, i + 1, i + Len(needle)) = needle

Digit == {"0", "1", "2", "3", "4", "5", "6", "7", "8", "9"}
DigitSeq == <<"0", "1", "2", "3", "4", "5", "6", "7", "8", "9">>
LowerSeq == <<"a","b","c","d","e","f","g","h","i","j","k","l","m","n","o","p","q","r","s","t","u","v","w","x","y","z">>
UpperSeq == <<"A","B","C","D","E","F","G","H","I","J","K","L","M","N","O","P","Q","R","S","T","U","V","W","X","Y","Z">>
Lower == {LowerSeq[i] : i \in 1..26}
Upper == {UpperSeq[i] : i \in 1..26}

\* String.prototype.toUpperCase, on the ASCII repertoire of the model
ToUpperChar(c) ==
  IF c \in Lower THEN UpperSeq[CHOOSE i \in 1..26 : LowerSeq[i] = c] ELSE c
ToUpperCase(s) == [i \in 1..Len(s) |-> ToUpperChar(s[i])]

\* s.replace(/[class]/g, by): every character of the class replaced by `by`
RECURSIVE ReplaceAll(_, _, _)
ReplaceAll(s, class, by) ==
  IF s = <<>> THEN <<>>
  ELSE (IF Head(s) \in class THEN by ELSE <<Head(s)>>) \o ReplaceAll(Tail(s), class, by)

\* lines.join(sep)
RECURSIVE Join(_, _)
Join(lines, sep) ==
  IF lines = <<>> THEN <<>>
  ELSE IF Len(lines) = 1 THEN lines[1]
  ELSE lines[1] \o sep \o Join(Tail(lines), sep)

\* ------------------------------------------------------------------------
\* String literals of the source
\* ------------------------------------------------------------------------
STR_MULTIPART == <<"m","u","l","t","i","p","a","r","t","/","f","o","r","m","-","d","a","t","a">>
STR_CLIP == <<"c","l","i","p",".","m","p","4">>
STR_UNKNOWN_CAMERA == <<"u","n","k","n","o","w","n","-","c","a","m","e","r","a">>
STR_NO_CODE == <<"n","o","-","c","o","d","e">>
STR_UNKNOWN_LOCATION == <<"u","n","k","n","o","w","n","-","l","o","c","a","t","i","o","n">>
STR_VIDEO_MP4 == <<"v","i","d","e","o","/","m","p","4">>
STR_NA == <<"N","A">>
STR_YC == <<"Y","C","-">>
STR_GOPR == <<"G","O","P","R">>
STR_DOT_MP4 == <<".","M","P","4">>
STR_YES == <<"y","e","s">>
STR_NO == <<"n","o">>
L_PROJECT == <<"Y","e","l","l","o","w"," ","C","a","m","e","r","a"," ","P","r","o","j","e","c","t"," ","r","a","w"," ","c","l","i","p">>
L_ORIGINAL == <<"O","r","i","g","i","n","a","l"," ","f","i","l","e","n","a","m","e",":"," ">>
L_CAMERA_ID == <<"C","a","m","e","r","a"," ","I","D",":"," ">>
L_CAMERA_CODE == <<"C","a","m","e","r","a"," ","c","o","d","e",":"," ">>
L_LOCATION == <<"L","o","c","a","t","i","o","n",":"," ">>
L_FILMED == <<"D","a","t","e"," ","f","i","l","m","e","d",":"," ">>
L_PERSON == <<"P","e","r","s","o","n",":"," ">>
L_CONTACT == <<"C","o","n","t","a","c","t",":"," ">>
L_SHARE == <<"S","h","a","r","e"," ","l","i","n","k",":"," ">>
L_UPLOAD_TIME == <<"U","p","l","o","a","d"," ","t","i","m","e",":"," ">>
L_VERIFIED == <<"V","e","r","i","f","i","e","d"," ","Y","e","l","l","o","w"," ","C","a","m","e","r","a"," ","f","i","l","e","n","a","m","e"," ","p","a","t","t","e","r","n",":"," ">>

ERR_UNSUPPORTED == "Unsupported content type. Expected multipart/form-data."
ERR_MISSING_ENV == "Missing one or more env vars: GDRIVE_CLIENT_EMAIL, GDRIVE_PRIVATE_KEY, GDRIVE_FOLDER_ID"
ERR_NO_FILES == "No video files found in upload."
ERR_METHOD == "Method Not Allowed"
ERR_UNEXPECTED == "Unexpected error during upload."
MSG_COMPLETE == "Upload complete. Your Yellow Camera clip has been saved. You can now pass the camera on."

\* ------------------------------------------------------------------------
\* Pure helpers of the source
\* ------------------------------------------------------------------------
\* /^GOPR\d{4}\.MP4$/.test(upper)
MatchClassic(upper) ==
  /\ Len(upper) = 12
  /\ SubSeq(upper, 1, 4) = STR_GOPR
  /\ \A i \in 5..8 : upper[i] \in Digit
  /\ SubSeq(upper, 9, 12) = STR_DOT_MP4

\* /^G[HO]\d{2}\d{4}\.MP4$/.test(upper)
MatchChaptered(upper) ==
  /\ Len(upper) = 12
  /\ upper[1] = "G"
  /\ upper[2] \in {"H", "O"}
  /\ \A i \in 3..4 : upper[i] \in Digit
  /\ \A i \in 5..8 : upper[i] \in Digit
  /\ SubSeq(upper, 9, 12) = STR_DOT_MP4

\* the same function without the toUpperCase() of line 72
isLikelyGoProName_CaseSensitive(filename) ==
  IF Falsy(filename) THEN FALSE
  ELSE IF MatchClassic(filename) THEN TRUE
  ELSE IF MatchChaptered(filename) THEN TRUE
  ELSE FALSE

isLikelyGoProName(filename) ==
  IF Falsy(filename) THEN FALSE
  ELSE LET upper == ToUpperCase(filename)
       IN IF MatchClassic(upper) THEN TRUE
          ELSE IF MatchChaptered(upper) THEN TRUE
          ELSE FALSE

\* new Date().toISOString() at `ms` milliseconds after 2025-01-01T00:00:00Z
toISOString(ms) ==
  <<"2","0","2","5","-","0","1","-","0","1","T","0","0",":","0","0",":","0","0",".">>
  \o <<DigitSeq[((ms \div 100) % 10) + 1], DigitSeq[((ms \div 10) % 10) + 1], DigitSeq[(ms % 10) + 1]>>
  \o <<"Z">>

\* characters kept by cameraCode.replace(/[^A-Za-z0-9_-]/g, '')
SafeChar == Upper \cup Lower \cup Digit \cup {"_", "-"}

\* s.replace(/[^class]/g, ''): every character outside the class removed
RECURSIVE RemoveOutside(_, _)
RemoveOutside(s, class) ==
  IF s = <<>> THEN <<>>
  ELSE (IF Head(s) \in class THEN <<Head(s)>> ELSE <<>>) \o RemoveOutside(Tail(s), class)

\* cameraCode.replace(/[^A-Za-z0-9_-]/g, '')
safeCameraCodeOf(cameraCode) == RemoveOutside(cameraCode, SafeChar)

\* privateKeyRaw.replace(/\\n/g, '\n'): backslash followed by n becomes a newline
RECURSIVE UnescapeNewlines(_)
UnescapeNewlines(s) ==
  IF s = <<>> THEN <<>>
  ELSE IF Len(s) >= 2 /\ s[1] = "\\" /\ s[2] = "n"
       THEN <<"\n">> \o UnescapeNewlines(SubSeq(s, 3, Len(s)))
       ELSE <<Head(s)>> \o UnescapeNewlines(Tail(s))

\* nowIso.replace(/[:.]/g, '-')
timestampSlugOf(nowIso) == ReplaceAll(nowIso, {":", "."}, <<"-">>)

\* `YC-${safeCameraCode || 'NA'}_${timestampSlug}_${original}`
newNameOf(safeCameraCode, timestampSlug, original) ==
  STR_YC \o Or(safeCameraCode, STR_NA) \o <<"_">> \o timestampSlug \o <<"_">> \o original

\* [ ... ].filter(Boolean)
descriptionLinesOf(original, cameraId, cameraCode, location, filmed, nickname, email, shareLink, nowIso, verified) ==
  SelectSeq(
    << L_PROJECT,
       L_ORIGINAL \o original,
       L_CAMERA_ID \o cameraId,
       L_CAMERA_CODE \o cameraCode,
       L_LOCATION \o location,
       IF ~Falsy(filmed) THEN L_FILMED \o filmed ELSE <<>>,
       IF ~Falsy(nickname) THEN L_PERSON \o nickname ELSE <<>>,
       IF ~Falsy(email) THEN L_CONTACT \o email ELSE <<>>,
       IF ~Falsy(shareLink) THEN L_SHARE \o shareLink ELSE <<>>,
       L_UPLOAD_TIME \o nowIso,
       L_VERIFIED \o (IF verified THEN STR_YES ELSE STR_NO) >>,
    LAMBDA line : line # <<>>)

\* ------------------------------------------------------------------------
\* Inputs
\* ------------------------------------------------------------------------
Methods == {"OPTIONS", "POST", "GET", "PUT"}

CT_MULTIPART == <<"m","u","l","t","i","p","a","r","t","/","f","o","r","m","-","d","a","t","a",";"," ","b","o","u","n","d","a","r","y","=","x">>
CT_JSON == <<"a","p","p","l","i","c","a","t","i","o","n","/","j","s","o","n">>

\* spellings of the content-type header key
ContentTypeKeys == {"content-type", "Content-Type", "CONTENT-TYPE"}

\* event.headers: no header, or one content-type header in one spelling
HeaderMaps ==
  {<<>>} \cup {(k :> v) : k \in ContentTypeKeys, v \in {CT_MULTIPART, CT_JSON}}

\* process.env.GDRIVE_*: unset, empty or set
EnvEmails == {Undefined, <<"a","@","b">>}
EnvKeys == {Undefined, <<>>, <<"k","\\","n","k">>}
EnvFolders == {<<>>, <<"f","1">>}

\* form fields as busboy delivers them
FieldMaps ==
  { <<>>,
    ("camera_code" :> <<>>),
    ("camera_code" :> <<"c","a","m"," ","0","7","!">>),
    ("camera_code" :> <<"!","?","!">>),
    ( "camera_id" :> <<"7">> @@ "camera_code" :> <<"A","-","b","_","9">>
      @@ "location" :> <<"p","i","e","r">> @@ "date_filmed" :> <<"2","0","2","5">>
      @@ "name" :> <<"j","o">> @@ "email" :> <<"j","@","x">>
      @@ "share_link" :> <<"x",".","y","/","z">> ) }

FilePart(filename, mimeType, size) ==
  [fieldname |-> "clip", filename |-> filename, mimeType |-> mimeType, size |-> size]

\* file parts as busboy delivers them (the buffer is represented by its length)
FileParts ==
  { FilePart(<<"G","O","P","R","0","0","0","7",".","M","P","4">>, STR_VIDEO_MP4, 1),
    FilePart(<<"G","O","P","R","0","0","0","7",".","M","P","4">>, STR_VIDEO_MP4, 2),
    FilePart(<<"r","a","n","d","o","m",".","m","o","v">>, Undefined, 3),
    FilePart(Undefined, STR_VIDEO_MP4, 0) }

FileLists == UNION {[1..n -> FileParts] : n \in 0..MaxFiles}

\* messages of the errors busboy and the Drive client can raise
BusboyErrors == {"Unexpected end of form"}
DriveErrors == {"Quota exceeded", ""}

\* ------------------------------------------------------------------------
\* State
\* ------------------------------------------------------------------------
VARIABLES
  env,         \* process.env: the three GDRIVE_* variables
  clock,       \* milliseconds elapsed on the wall clock read by new Date()
  pc,          \* position of the handler invocation
  httpMethod,  \* event.httpMethod
  headers,     \* event.headers
  decoded,     \* the body has been handed to the multipart parser
  fields,      \* fields resolved by parseMultipart
  files,       \* files resolved by parseMultipart
  client,      \* { drive, folderId } returned by getDriveClient
  nowIso,      \* nowIso of the handler
  uploads,     \* uploads of the handler
  cursor,      \* index of the file the for-loop is at
  awaiting,    \* index of the file whose drive.files.create is awaited, or 0
  inFlight,    \* indices of the files whose drive.files.create is pending
  requests,    \* drive.files.create calls made, in order
  remote,      \* files stored in the Drive folder by this request
  caught,      \* message of the error caught by the handler
  responses,   \* responses returned by the handler
  probe,       \* classifier check: the filename under test
  verdict      \* classifier check: what the code computed for it

vars == <<env, clock, pc, httpMethod, headers, decoded, fields, files, client,
          nowIso, uploads, cursor, awaiting, inFlight, requests, remote,
          caught, responses, probe, verdict>>

None == "none"
NoClient == [built |-> FALSE]

JsonHeaders == ("Content-Type" :> "application/json")
CorsJsonHeaders ==
  ("Content-Type" :> "application/json" @@ "Access-Control-Allow-Origin" :> "*")
PreflightHeaders ==
  ( "Access-Control-Allow-Origin" :> "*"
    @@ "Access-Control-Allow-Methods" :> "POST, OPTIONS"
    @@ "Access-Control-Allow-Headers" :> "Content-Type" )

Response(statusCode, hdrs, body) ==
  [statusCode |-> statusCode, headers |-> hdrs, body |-> body]

\* the catch clause of the handler
CatchResponse(message) ==
  Response(500, CorsJsonHeaders,
           [ok |-> FALSE, error |-> IF message = "" THEN ERR_UNEXPECTED ELSE message])

Init ==
  /\ env \in [GDRIVE_CLIENT_EMAIL : EnvEmails, GDRIVE_PRIVATE_KEY : EnvKeys,
              GDRIVE_FOLDER_ID : EnvFolders]
  /\ clock = 0
  /\ pc = "start"
  /\ httpMethod = None
  /\ headers = <<>>
  /\ decoded = FALSE
  /\ fields = <<>>
  /\ files = <<>>
  /\ client = NoClient
  /\ nowIso = <<>>
  /\ uploads = <<>>
  /\ cursor = 0
  /\ awaiting = 0
  /\ inFlight = {}
  /\ requests = <<>>
  /\ remote = <<>>
  /\ caught = None
  /\ responses = <<>>
  /\ probe = Undefined
  /\ verdict = [stage |-> 0]

\* ------------------------------------------------------------------------
\* Locals of the handler that are functions of the decoded fields
\* ------------------------------------------------------------------------
cameraId == Or(Get(fields, "camera_id"), STR_UNKNOWN_CAMERA)
cameraCode == Or(Get(fields, "camera_code"), STR_NO_CODE)
location == Or(Get(fields, "location"), STR_UNKNOWN_LOCATION)
filmed == Or(Get(fields, "date_filmed"), <<>>)
nickname == Or(Get(fields, "name"), <<>>)
email == Or(Get(fields, "email"), <<>>)
shareLink == Or(Get(fields, "share_link"), <<>>)
safeCameraCode == safeCameraCodeOf(cameraCode)

\* const original = f.filename || 'clip.mp4'
originalOf(f) == Or(f.filename, STR_CLIP)

\* the argument of drive.files.create for file f, with the timestamp `iso`
createRequestOf(f, iso) ==
  LET original == originalOf(f)
      verified == isLikelyGoProName(original)
  IN [ requestBody |->
         [ name |-> newNameOf(safeCameraCode, timestampSlugOf(iso), original),
           parents |-> <<client.folderId>>,
           description |->
             Join(descriptionLinesOf(original, cameraId, cameraCode, location, filmed,
                                     nickname, email, shareLink, iso, verified),
                  <<"\n">>) ],
       media |-> [mimeType |-> Or(f.mimeType, STR_VIDEO_MP4), length |-> f.size],
       fields |-> "id, name" ]

\* the entry pushed to uploads for file f once create resolved with `data`
uploadResultOf(f, data) ==
  [ id |-> data.id,
    name |-> data.name,
    originalName |-> originalOf(f),
    verified |-> isLikelyGoProName(originalOf(f)),
    sizeBytes |-> f.size ]

\* headers['content-type'] || headers['Content-Type'] || ''
contentTypeOf(h) == Or(Or(Get(h, "content-type"), Get(h, "Content-Type")), <<>>)

\* !clientEmail || !privateKeyRaw || !folderId, without the private key
getDriveClientMissing_NoKeyCheck(e) ==
  \/ Falsy(e.GDRIVE_CLIENT_EMAIL)
  \/ Falsy(e.GDRIVE_FOLDER_ID)

\* !clientEmail || !privateKeyRaw || !folderId
getDriveClientMissing(e) ==
  \/ Falsy(e.GDRIVE_CLIENT_EMAIL)
  \/ Falsy(Or(e.GDRIVE_PRIVATE_KEY, <<>>))
  \/ Falsy(e.GDRIVE_FOLDER_ID)

\* ------------------------------------------------------------------------
\* The handler
\* ------------------------------------------------------------------------
Respond(r) == responses' = Append(responses, r) /\ pc' = "done"

\* if (event.httpMethod === 'OPTIONS') return 204
handler_Preflight(m, h) ==
  /\ pc = "start"
  /\ m = "OPTIONS"
  /\ httpMethod' = m /\ headers' = h
  /\ Respond(Response(204, PreflightHeaders, ""))
  /\ UNCHANGED <<env, clock, decoded, fields, files, client, nowIso, uploads, cursor,
                 awaiting, inFlight, requests, remote, caught, probe, verdict>>

\* if (event.httpMethod !== 'POST') return 405
handler_MethodNotAllowed(m, h) ==
  /\ pc = "start"
  /\ m # "OPTIONS"
  /\ m # "POST"
  /\ httpMethod' = m /\ headers' = h
  /\ Respond(Response(405, JsonHeaders, [ok |-> FALSE, error |-> ERR_METHOD]))
  /\ UNCHANGED <<env, clock, decoded, fields, files, client, nowIso, uploads, cursor,
                 awaiting, inFlight, requests, remote, caught, probe, verdict>>

\* the handler without the 405 check: every method but OPTIONS enters the try block
handler_Post_NoMethodCheck(m, h) ==
  /\ pc = "start"
  /\ m # "OPTIONS"
  /\ httpMethod' = m /\ headers' = h
  /\ pc' = "parse"
  /\ UNCHANGED <<env, clock, decoded, fields, files, client, nowIso, uploads, cursor,
                 awaiting, inFlight, requests, remote, caught, responses, probe, verdict>>

\* a POST passes both method checks and calls parseMultipart(event)
handler_Post(m, h) ==
  /\ pc = "start"
  /\ m # "OPTIONS"
  /\ ~(m # "POST")
  /\ httpMethod' = m /\ headers' = h
  /\ pc' = "parse"
  /\ UNCHANGED <<env, clock, decoded, fields, files, client, nowIso, uploads, cursor,
                 awaiting, inFlight, requests, remote, caught, responses, probe, verdict>>

\* parseMultipart rejects on the content type; the handler's catch answers 500
parseMultipart_Unsupported ==
  /\ pc = "parse"
  /\ ~Includes(contentTypeOf(headers), STR_MULTIPART)
  /\ caught' = ERR_UNSUPPORTED
  /\ Respond(CatchResponse(ERR_UNSUPPORTED))
  /\ UNCHANGED <<env, clock, httpMethod, headers, decoded, fields, files, client, nowIso,
                 uploads, cursor, awaiting, inFlight, requests, remote, probe, verdict>>

\* busboy throws or emits 'error' (malformed body, no boundary, no lower-case
\* content-type key); the handler's catch answers 500
parseMultipart_Error(msg) ==
  /\ pc = "parse"
  /\ Includes(contentTypeOf(headers), STR_MULTIPART)
  /\ decoded' = TRUE
  /\ caught' = msg
  /\ Respond(CatchResponse(msg))
  /\ UNCHANGED <<env, clock, httpMethod, headers, fields, files, client, nowIso,
                 uploads, cursor, awaiting, inFlight, requests, remote, probe, verdict>>

\* busboy emits 'finish': parseMultipart resolves with { fields, files }
parseMultipart_Resolve(fs, fl) ==
  /\ pc = "parse"
  /\ Includes(contentTypeOf(headers), STR_MULTIPART)
  /\ decoded' = TRUE
  /\ fields' = fs
  /\ files' = fl
  /\ pc' = "parsed"
  /\ UNCHANGED <<env, clock, httpMethod, headers, client, nowIso, uploads, cursor,
                 awaiting, inFlight, requests, remote, caught, responses, probe, verdict>>

NoFilesResponse == Response(400, JsonHeaders, [ok |-> FALSE, error |-> ERR_NO_FILES])

\* the empty-files check placed after getDriveClient()
handler_NoFiles_AfterClient ==
  /\ pc = "parsed"
  /\ Len(files) = 0
  /\ IF getDriveClientMissing(env)
     THEN /\ caught' = ERR_MISSING_ENV
          /\ Respond(CatchResponse(ERR_MISSING_ENV))
          /\ UNCHANGED client
     ELSE /\ client' = [built |-> TRUE, client_email |-> env.GDRIVE_CLIENT_EMAIL,
                        private_key |-> UnescapeNewlines(env.GDRIVE_PRIVATE_KEY),
                        folderId |-> env.GDRIVE_FOLDER_ID]
          /\ Respond(NoFilesResponse)
          /\ UNCHANGED caught
  /\ UNCHANGED <<env, clock, httpMethod, headers, decoded, fields, files, nowIso,
                 uploads, cursor, awaiting, inFlight, requests, remote, probe, verdict>>

\* if (!files || files.length === 0) return 400
handler_NoFiles ==
  /\ pc = "parsed"
  /\ Len(files) = 0
  /\ Respond(NoFilesResponse)
  /\ UNCHANGED <<env, clock, httpMethod, headers, decoded, fields, files, client, nowIso,
                 uploads, cursor, awaiting, inFlight, requests, remote, caught, probe, verdict>>

\* getDriveClient throws on a missing variable; the handler's catch answers 500
getDriveClient_Throw ==
  /\ pc = "parsed"
  /\ Len(files) # 0
  /\ getDriveClientMissing(env)
  /\ caught' = ERR_MISSING_ENV
  /\ Respond(CatchResponse(ERR_MISSING_ENV))
  /\ UNCHANGED <<env, clock, httpMethod, headers, decoded, fields, files, client, nowIso,
                 uploads, cursor, awaiting, inFlight, requests, remote, probe, verdict>>

\* getDriveClient returns; the handler takes the timestamp and enters the loop
getDriveClient_Return ==
  /\ pc = "parsed"
  /\ Len(files) # 0
  /\ ~getDriveClientMissing(env)
  /\ client' = [built |-> TRUE, client_email |-> env.GDRIVE_CLIENT_EMAIL,
                private_key |-> UnescapeNewlines(env.GDRIVE_PRIVATE_KEY),
                folderId |-> env.GDRIVE_FOLDER_ID]
  /\ nowIso' = toISOString(clock)
  /\ uploads' = <<>>
  /\ cursor' = 1
  /\ pc' = "loop"
  /\ UNCHANGED <<env, clock, httpMethod, headers, decoded, fields, files, awaiting,
                 inFlight, requests, remote, caught, responses, probe, verdict>>

\* the loop body without the await: create is called and the loop moves on
handler_StartUpload_NoAwait ==
  /\ pc = "loop"
  /\ awaiting = 0
  /\ cursor \in 1..Len(files)
  /\ requests' = Append(requests, createRequestOf(files[cursor], nowIso))
  /\ inFlight' = inFlight \cup {cursor}
  /\ cursor' = cursor + 1
  /\ UNCHANGED <<env, clock, pc, httpMethod, headers, decoded, fields, files, client,
                 nowIso, uploads, awaiting, remote, caught, responses, probe, verdict>>

\* the loop body with new Date() taken inside the loop
handler_StartUpload_FreshTimestamp ==
  /\ pc = "loop"
  /\ awaiting = 0
  /\ cursor \in 1..Len(files)
  /\ requests' = Append(requests, createRequestOf(files[cursor], toISOString(clock)))
  /\ inFlight' = inFlight \cup {cursor}
  /\ awaiting' = cursor
  /\ UNCHANGED <<env, clock, pc, httpMethod, headers, decoded, fields, files, client,
                 nowIso, uploads, cursor, remote, caught, responses, probe, verdict>>

\* one iteration of for (const f of files) up to await drive.files.create(...)
handler_StartUpload ==
  /\ pc = "loop"
  /\ awaiting = 0
  /\ cursor \in 1..Len(files)
  /\ requests' = Append(requests, createRequestOf(files[cursor], nowIso))
  /\ inFlight' = inFlight \cup {cursor}
  /\ awaiting' = cursor
  /\ UNCHANGED <<env, clock, pc, httpMethod, headers, decoded, fields, files, client,
                 nowIso, uploads, cursor, remote, caught, responses, probe, verdict>>

\* what the Drive folder holds for an accepted create request
StoredFile(request) ==
  [ id |-> Len(remote) + 1,
    name |-> request.requestBody.name,
    parents |-> request.requestBody.parents,
    description |-> request.requestBody.description,
    mimeType |-> request.media.mimeType,
    size |-> request.media.length ]

\* create resolves and the result is put at the front of uploads
files_create_Resolve_Unshift(i, elapsed) ==
  /\ i \in inFlight
  /\ clock + elapsed <= MaxClock
  /\ clock' = clock + elapsed
  /\ remote' = Append(remote, StoredFile(requests[i]))
  /\ inFlight' = inFlight \ {i}
  /\ IF awaiting = i /\ pc = "loop"
     THEN /\ uploads' = <<uploadResultOf(files[i], StoredFile(requests[i]))>> \o uploads
          /\ cursor' = cursor + 1
          /\ awaiting' = 0
     ELSE UNCHANGED <<uploads, cursor, awaiting>>
  /\ UNCHANGED <<env, pc, httpMethod, headers, decoded, fields, files, client, nowIso,
                 requests, caught, responses, probe, verdict>>

\* the backend stores file i: drive.files.create resolves, the handler resumes,
\* pushes the result and goes to the next iteration
files_create_Resolve(i, elapsed) ==
  /\ i \in inFlight
  /\ clock + elapsed <= MaxClock
  /\ clock' = clock + elapsed
  /\ remote' = Append(remote, StoredFile(requests[i]))
  /\ inFlight' = inFlight \ {i}
  /\ IF awaiting = i /\ pc = "loop"
     THEN /\ uploads' = Append(uploads, uploadResultOf(files[i], StoredFile(requests[i])))
          /\ cursor' = cursor + 1
          /\ awaiting' = 0
     ELSE UNCHANGED <<uploads, cursor, awaiting>>
  /\ UNCHANGED <<env, pc, httpMethod, headers, decoded, fields, files, client, nowIso,
                 requests, caught, responses, probe, verdict>>

\* create rejects inside a per-file try/catch: the loop goes on with the next file
files_create_Reject_Swallow(i, elapsed, msg) ==
  /\ i \in inFlight
  /\ clock + elapsed <= MaxClock
  /\ clock' = clock + elapsed
  /\ inFlight' = inFlight \ {i}
  /\ IF awaiting = i /\ pc = "loop"
     THEN /\ caught' = msg
          /\ cursor' = cursor + 1
          /\ awaiting' = 0
     ELSE UNCHANGED <<caught, cursor, awaiting>>
  /\ UNCHANGED <<env, pc, httpMethod, headers, decoded, fields, files, client, nowIso,
                 uploads, requests, remote, responses, probe, verdict>>

\* the backend rejects file i: drive.files.create rejects, the await throws,
\* the handler's catch answers 500
files_create_Reject(i, elapsed, msg) ==
  /\ i \in inFlight
  /\ clock + elapsed <= MaxClock
  /\ clock' = clock + elapsed
  /\ inFlight' = inFlight \ {i}
  /\ IF awaiting = i /\ pc = "loop"
     THEN /\ caught' = msg
          /\ awaiting' = 0
          /\ Respond(CatchResponse(msg))
     ELSE UNCHANGED <<caught, awaiting, responses, pc>>
  /\ UNCHANGED <<env, httpMethod, headers, decoded, fields, files, client, nowIso,
                 uploads, cursor, requests, remote, probe, verdict>>

\* the loop is exhausted: return 200
handler_Finish ==
  /\ pc = "loop"
  /\ awaiting = 0
  /\ cursor > Len(files)
  /\ Respond(Response(200, CorsJsonHeaders,
                      [ ok |-> TRUE, message |-> MSG_COMPLETE,
                        uploadedCount |-> Len(uploads), uploads |-> uploads ]))
  /\ UNCHANGED <<env, clock, httpMethod, headers, decoded, fields, files, client, nowIso,
                 uploads, cursor, awaiting, inFlight, requests, remote, caught, probe, verdict>>

Next ==
  \/ \E m \in Methods, h \in HeaderMaps : handler_Preflight(m, h)
  \/ \E m \in Methods, h \in HeaderMaps : handler_MethodNotAllowed(m, h)
  \/ \E m \in Methods, h \in HeaderMaps : handler_Post(m, h)
  \/ parseMultipart_Unsupported
  \/ \E msg \in BusboyErrors : parseMultipart_Error(msg)
  \/ \E fs \in FieldMaps, fl \in FileLists : parseMultipart_Resolve(fs, fl)
  \/ handler_NoFiles
  \/ getDriveClient_Throw
  \/ getDriveClient_Return
  \/ handler_StartUpload
  \/ \E i \in 1..MaxFiles, elapsed \in 0..1 : files_create_Resolve(i, elapsed)
  \/ \E i \in 1..MaxFiles, elapsed \in 0..1, msg \in DriveErrors :
       files_create_Reject(i, elapsed, msg)
  \/ handler_Finish

Spec == Init /\ [][Next]_vars

\* ------------------------------------------------------------------------
\* The filename classifier on its own: isLikelyGoProName applied to sample
\* filenames, directly and through the per-file step of the handler
\* ------------------------------------------------------------------------
SamplePrefixes ==
  { <<>>, <<"G">>, <<"G","O","P","R">>, <<"g","o","p","r">>, <<"G","o","P","r">>,
    <<"G","H">>, <<"g","h">>, <<"G","O">>, <<"g","O">>, <<"G","X">>, <<"G","P">>,
    <<"X","G","O","P","R">>, <<"G","O","P","R","O">> }
SampleDigits ==
  { <<>>, <<"0","0","0","7">>, <<"1","2","3">>, <<"1","2","3","4","5">>,
    <<"0","1","0","0","0","1">>, <<"0","1","0","0","0">>, <<"0","1","0","0","0","1","2">>,
    <<"0","1","0","0","0","a">>, <<"0","0","x","7">> }
SampleSuffixes ==
  { <<".","M","P","4">>, <<".","m","p","4">>, <<".","M","p","4">>, <<".","M","P","3">>,
    <<"M","P","4">>, <<"x","M","P","4">>, <<".","M","P","4","x">>, <<".","M","P","4","\n">>,
    <<".","m","o","v">> }
FilenameSamples ==
  {Undefined, <<>>}
  \cup {p \o d \o x : p \in SamplePrefixes, d \in SampleDigits, x \in SampleSuffixes}

InitClassifier ==
  /\ env = [GDRIVE_CLIENT_EMAIL |-> Undefined, GDRIVE_PRIVATE_KEY |-> Undefined,
            GDRIVE_FOLDER_ID |-> Undefined]
  /\ clock = 0
  /\ pc = "classify"
  /\ httpMethod = None
  /\ headers = <<>>
  /\ decoded = FALSE
  /\ fields = <<>>
  /\ files = <<>>
  /\ client = NoClient
  /\ nowIso = <<>>
  /\ uploads = <<>>
  /\ cursor = 0
  /\ awaiting = 0
  /\ inFlight = {}
  /\ requests = <<>>
  /\ remote = <<>>
  /\ caught = None
  /\ responses = <<>>
  /\ probe \in FilenameSamples
  /\ verdict = [stage |-> 0]

\* isLikelyGoProName(probe)
classify_Call ==
  /\ pc = "classify"
  /\ verdict.stage = 0
  /\ verdict' = [stage |-> 1, direct |-> isLikelyGoProName(probe)]
  /\ UNCHANGED <<env, clock, pc, httpMethod, headers, decoded, fields, files, client,
                 nowIso, uploads, cursor, awaiting, inFlight, requests, remote, caught,
                 responses, probe>>

\* the upload result the handler builds for a file part named probe
classify_Part ==
  /\ pc = "classify"
  /\ verdict.stage = 1
  /\ verdict' = [ stage |-> 2, direct |-> verdict.direct,
                  result |-> uploadResultOf(FilePart(probe, STR_VIDEO_MP4, 1),
                                            [id |-> 1, name |-> <<>>]) ]
  /\ UNCHANGED <<env, clock, pc, httpMethod, headers, decoded, fields, files, client,
                 nowIso, uploads, cursor, awaiting, inFlight, requests, remote, caught,
                 responses, probe>>

NextClassifier == classify_Call \/ classify_Part

SpecClassifier == InitClassifier /\ [][NextClassifier]_vars

\* ------------------------------------------------------------------------
\* Vocabulary of the properties
\* ------------------------------------------------------------------------
Done == pc = "done"
TheResponse == responses[1]
Present(v) == v # Undefined /\ v # <<>>

\* one of the three configuration values is absent or empty
ConfigMissing ==
  \E name \in {"GDRIVE_CLIENT_EMAIL", "GDRIVE_PRIVATE_KEY", "GDRIVE_FOLDER_ID"} :
    ~Present(env[name])

\* the multipart body was decoded successfully
DecodeSucceeded == decoded /\ caught \notin BusboyErrors

\* a create call was made that is neither pending nor stored: the backend rejected it
UploadRejected == inFlight = {} /\ Len(requests) > Len(remote)

\* the filename the results report for file part f
ReportedName(f) == IF Present(f.filename) THEN f.filename ELSE STR_CLIP

\* C1: when the backend rejects the upload of file k the handler stops at once:
\* no create call is made for a later file, exactly one response exists, it is a
\* 500 whose body is {ok:false, error:<message>} without an uploads list, and
\* the k-1 files stored before stay stored.
C1_AbortOnUploadFailure ==
  UploadRejected =>
    /\ Done
    /\ Len(requests) = Len(remote) + 1
    /\ Len(responses) = 1
    /\ TheResponse.statusCode = 500
    /\ DOMAIN TheResponse.body = {"ok", "error"}
    /\ TheResponse.body.ok = FALSE
    /\ caught \in DriveErrors
    /\ TheResponse.body.error = (IF caught = "" THEN ERR_UNEXPECTED ELSE caught)
    /\ \A j \in 1..Len(remote) : remote[j].size = files[j].size

\* the 2nd of 3 files was rejected after the 1st was stored
C1_Witness ==
  /\ UploadRejected
  /\ Len(files) = 3
  /\ Len(requests) = 2
  /\ Len(remote) = 1
  /\ Done

\* C2: a POST that decodes to N >= 1 file parts, with the configuration present
\* and no upload rejected, is answered 200 with uploadedCount = N and N upload
\* results, the i-th describing the i-th file part (filename and size).
C2_AllUploadedInOrder ==
  (Done /\ httpMethod = "POST" /\ DecodeSucceeded /\ Len(files) >= 1
     /\ ~ConfigMissing /\ ~UploadRejected) =>
    /\ Len(responses) = 1
    /\ TheResponse.statusCode = 200
    /\ TheResponse.body.ok = TRUE
    /\ TheResponse.body.uploadedCount = Len(files)
    /\ Len(TheResponse.body.uploads) = Len(files)
    /\ \A i \in 1..Len(files) :
         /\ TheResponse.body.uploads[i].originalName = ReportedName(files[i])
         /\ TheResponse.body.uploads[i].sizeBytes = files[i].size
         /\ TheResponse.body.uploads[i].id = remote[i].id

\* a 200 for three file parts of which the first two differ
C2_Witness ==
  /\ Done
  /\ Len(responses) = 1
  /\ TheResponse.statusCode = 200
  /\ Len(files) = 3
  /\ files[1] # files[2]
  /\ files[1].filename = Undefined

\* C3 as claimed: with a configuration value missing, every POST request is
\* answered 500 by the client-build step.
C3_EveryPostFailsAtClientBuild ==
  (Done /\ httpMethod = "POST" /\ ConfigMissing) =>
    /\ TheResponse.statusCode = 500
    /\ TheResponse.body.error = ERR_MISSING_ENV

\* C3 amended: with a configuration value missing, every POST request whose
\* body decodes to at least one file part is answered 500 by the client-build
\* step, with no client built and no upload attempted; the other POST requests
\* are answered before that step, 500 by the decoder or 400 for no files.
C3_PostWithFilesFailsAtClientBuild ==
  (Done /\ httpMethod = "POST" /\ ConfigMissing) =>
    /\ Len(responses) = 1
    /\ ~client.built
    /\ requests = <<>>
    /\ (DecodeSucceeded /\ Len(files) >= 1) =>
         /\ TheResponse.statusCode = 500
         /\ TheResponse.body = [ok |-> FALSE, error |-> ERR_MISSING_ENV]
    /\ ~(DecodeSucceeded /\ Len(files) >= 1) =>
         /\ TheResponse.statusCode \in {400, 500}
         /\ TheResponse.body.error # ERR_MISSING_ENV

\* a POST with two file parts and only the private key empty
C3_Witness ==
  /\ Done
  /\ httpMethod = "POST"
  /\ Len(files) = 2
  /\ Present(env.GDRIVE_CLIENT_EMAIL)
  /\ env.GDRIVE_PRIVATE_KEY = <<>>
  /\ Present(env.GDRIVE_FOLDER_ID)
  /\ TheResponse.statusCode = 500

\* the camera-code part of the remote name as the claim describes it
ClaimedCodePart ==
  LET given == Get(fields, "camera_code")
      kept == IF Present(given) THEN SelectSeq(given, LAMBDA c : c \in SafeChar) ELSE <<>>
  IN IF kept = <<>> THEN STR_NA ELSE kept

\* C4 as claimed: every remote name is YC-<code>_<slug>_<original> where <code>
\* is the camera_code field without the characters outside [A-Za-z0-9_-], or
\* NA when the field is absent, empty or sanitizes to nothing.
C4_CameraCodePart ==
  \A j \in 1..Len(requests) :
    requests[j].requestBody.name =
      STR_YC \o ClaimedCodePart \o <<"_">> \o timestampSlugOf(nowIso) \o <<"_">>
        \o ReportedName(files[j])

\* C5: a POST whose body decodes to zero file parts is answered 400 with the
\* fixed error body, whatever the fields, with no client built and no upload.
C5_NoFilesIs400 ==
  (Done /\ httpMethod = "POST" /\ DecodeSucceeded /\ Len(files) = 0) =>
    /\ Len(responses) = 1
    /\ TheResponse.statusCode = 400
    /\ TheResponse.body = [ok |-> FALSE, error |-> ERR_NO_FILES]
    /\ ~client.built
    /\ requests = <<>>
    /\ remote = <<>>

\* a 400 for a body with all seven fields and no file, with the configuration present
C5_Witness ==
  /\ Done
  /\ Len(responses) = 1
  /\ TheResponse.statusCode = 400
  /\ "share_link" \in DOMAIN fields
  /\ ~ConfigMissing

\* the value of the content-type header, whatever the case of its key
HasMultipartContentType ==
  \E k \in DOMAIN headers : k \in ContentTypeKeys /\ Includes(headers[k], STR_MULTIPART)

\* C6 as claimed: the decoder fails with the unsupported-content-type error
\* exactly when no content-type header, in any case of the key, contains
\* multipart/form-data; it then fails before reading any part and the answer
\* is 500 with that message.
C6_UnsupportedContentType ==
  (httpMethod = "POST" /\ pc \notin {"start", "parse"}) =>
    /\ (caught = ERR_UNSUPPORTED) <=> ~HasMultipartContentType
    /\ (caught = ERR_UNSUPPORTED) =>
         /\ ~decoded
         /\ fields = <<>> /\ files = <<>>
         /\ TheResponse.statusCode = 500
         /\ TheResponse.body.error = ERR_UNSUPPORTED

\* GOPR + four digits + .MP4, or G + H or O + six digits + .MP4, in any case
KnownDevicePattern(name) ==
  /\ Len(name) = 12
  /\ name[1] \in {"G", "g"}
  /\ \/ /\ name[2] \in {"O", "o"}
        /\ name[3] \in {"P", "p"}
        /\ name[4] \in {"R", "r"}
     \/ /\ name[2] \in {"H", "h", "O", "o"}
        /\ name[3] \in Digit
        /\ name[4] \in Digit
  /\ \A i \in 5..8 : name[i] \in Digit
  /\ name[9] = "."
  /\ name[10] \in {"M", "m"}
  /\ name[11] \in {"P", "p"}
  /\ name[12] = "4"

\* C7: isLikelyGoProName is true exactly for the names that are, in any case,
\* GOPR + 4 digits + .MP4 or G[HO] + 6 digits + .MP4, false for a missing or
\* empty name, and the verified flag of an upload result is the function
\* applied to the part's filename, with clip.mp4 when the filename is absent.
C7_ClassifierMatchesPatterns ==
  /\ verdict.stage >= 1 =>
       verdict.direct = (Present(probe) /\ KnownDevicePattern(probe))
  /\ verdict.stage >= 2 =>
       /\ verdict.result.originalName = (IF Present(probe) THEN probe ELSE STR_CLIP)
       /\ verdict.result.verified = KnownDevicePattern(verdict.result.originalName)

\* a lower-case chaptered name was classified as a device name
C7_Witness ==
  /\ verdict.stage = 2
  /\ probe = <<"g","h","0","1","0","0","0","1",".","m","p","4">>
  /\ verdict.direct = TRUE
  /\ verdict.result.verified = TRUE

\* C8: OPTIONS is answered 204 with an empty body and any method other than
\* POST and OPTIONS is answered 405 with {ok:false, error:"Method Not Allowed"};
\* in both cases nothing is decoded, no client is built, no upload is made.
C8_NonPostMethods ==
  (httpMethod \notin {None, "POST"}) =>
    /\ Done
    /\ Len(responses) = 1
    /\ ~decoded
    /\ ~client.built
    /\ requests = <<>>
    /\ remote = <<>>
    /\ IF httpMethod = "OPTIONS"
       THEN TheResponse.statusCode = 204 /\ TheResponse.body = ""
       ELSE /\ TheResponse.statusCode = 405
            /\ TheResponse.body = [ok |-> FALSE, error |-> ERR_METHOD]

\* a PUT with a multipart content type and the configuration present got 405
C8_Witness ==
  /\ Done
  /\ httpMethod = "PUT"
  /\ HasMultipartContentType
  /\ ~ConfigMissing
  /\ TheResponse.statusCode = 405

\* C9: uploads of one request are sequential and in input order: at most one
\* create call is pending, the call for file i+1 is made only after file i was
\* stored, the j-th stored file is the j-th file part, and the number of
\* collected results equals the number of files stored.
C9_SequentialUploads ==
  /\ Cardinality(inFlight) <= 1
  /\ Len(requests) <= Len(remote) + 1
  /\ inFlight \subseteq {Len(remote) + 1}
  /\ inFlight # {} => Len(requests) = Len(remote) + 1
  /\ Len(uploads) = Len(remote)
  /\ \A j \in 1..Len(requests) : requests[j].media.length = files[j].size
  /\ \A j \in 1..Len(remote) :
       /\ remote[j].size = files[j].size
       /\ uploads[j].id = remote[j].id
       /\ uploads[j].sizeBytes = files[j].size

\* the third upload is pending while two results are collected
C9_Witness ==
  /\ inFlight = {3}
  /\ Len(uploads) = 2
  /\ Len(remote) = 2

\* the timestamp slug inside a remote name built for file part f
SlugIn(name, f) ==
  SubSeq(name, Len(name) - Len(ReportedName(f)) - 24, Len(name) - Len(ReportedName(f)) - 1)

\* C10: every create call of one request carries the slug of the one timestamp
\* taken before the loop in its name and that timestamp in its upload-time
\* line; two file parts get the same remote name exactly when their filenames
\* (after the clip.mp4 default) are the same.
C10_OneTimestampPerRequest ==
  \A i \in 1..Len(requests) :
    /\ SlugIn(requests[i].requestBody.name, files[i]) = timestampSlugOf(nowIso)
    /\ Includes(requests[i].requestBody.description, L_UPLOAD_TIME \o nowIso \o <<"\n">>)
    /\ \A j \in 1..Len(requests) :
         (requests[i].requestBody.name = requests[j].requestBody.name)
           <=> (ReportedName(files[i]) = ReportedName(files[j]))

\* two different file parts of one request got the same remote name, the
\* second one after the clock had advanced
C10_Witness ==
  /\ Len(requests) >= 2
  /\ inFlight = {2}
  /\ clock >= 1
  /\ files[1] # files[2]
  /\ requests[1].requestBody.name = requests[2].requestBody.name

====
